---- MODULE Spec2Model ----
(***************************************************************************)
(* XILLEN security bot (src/bot.py): the suspicion ledger, the per-user    *)
(* rate window, the message-processing pipeline, the moderation commands   *)
(* and the in-memory security event list.                                  *)
(*                                                                         *)
(* Time is counted in whole seconds.  The handlers are coroutines of one   *)
(* asyncio event loop: a handler runs without interruption until an await  *)
(* that returns to the event loop (a call to the chat platform), and       *)
(* another handler may run there.  process_message and on_member_join are  *)
(* tasks whose steps end at those awaits; a command or on_member_remove,   *)
(* whose only change of the shared state is one uninterrupted block, is    *)
(* one action.                                                             *)
(***************************************************************************)
EXTENDS Integers, Sequences, FiniteSets, TLC

VARIABLES
    config,            \* self.config (bot.py:44), replaced by reload_config
    security_events,   \* self.security_events (bot.py:45)
    suspicious_users,  \* self.suspicious_users (bot.py:46): a dict keyed by user id
    now,               \* the wall clock read by datetime.datetime.now()
    tasks,             \* the message and member-join coroutines in flight, by task slot
    db_messages,       \* ids of the rows of the messages table (Database.log_message)
    spam_checks,       \* history: per user, the times and results of the is_spam calls
    appended,          \* history: every event log_security_event appended, in order
    last,              \* history: the calls the last step made and what it reported
    counts             \* how many messages, commands, member events and ticks happened

vars == <<config, security_events, suspicious_users, now, tasks, db_messages,
          spam_checks, appended, last, counts>>

----------------------------------------------------------------------------
(* Bounds of the model *)

\* messages dispatched and commands invoked in a run of Spec
MaxOps == 2
\* clock advances in a run
MaxTicks == 1
\* messages dispatched in a run of SpecWindow
MaxWindowMsgs == 6
\* events already in the list when SpecLog starts
PreFill == 1000
\* member events in a run of SpecLog
MaxRingCalls == 2
\* events already in the list when SpecQuery starts
QueryFill == 26
\* member events in a run of SpecQuery
MaxQueryCalls == 2
\* reloads of the configuration in a run of SpecQuery
MaxQueryReloads == 1

----------------------------------------------------------------------------
(* Program constants *)

\* bot.py:176  (now - msg).seconds < 10
WindowSeconds == 10
\* bot.py:178  len(recent_messages) >= 5
SpamCount == 5
\* bot.py:283  len(self.security_events) > 1000
MaxSecurityEvents == 1000
\* bot.py:248  self.config.get("suspicious_threshold", 3)
DefaultThreshold == 3
\* datetime.timedelta keeps days apart from seconds: 0 <= seconds < 86400
SecondsPerDay == 86400
\* bot.py:314  account_age.days < 7
NewAccountDays == 7
\* bot.py:463-464  if limit > 25: limit = 25
MaxLogsLimit == 25
\* bot.py:462  limit: int = 10
DefaultLimit == 10
\* bot.py:402  elif total_points < 3
ScanDangerPoints == 3
\* bot.py:410  user_data["reasons"][-3:]
ScanReasons == 3

Users == {1, 2}
Tasks == {1, 2}
\* Python None, where an integer id is expected; None and 0 are both falsy
None == 0

\* the amounts the clock may advance by between two steps
ClockSteps == {1, 11, SecondsPerDay}

----------------------------------------------------------------------------
(* Configuration: a dict; a missing key reads as the default of .get *)

\* dict.get(key, default)
ConfigGet(cfg, key, default) ==
    IF key \in DOMAIN cfg THEN cfg[key] ELSE default

\* load_config (bot.py:55-71) returns the content of config.json.  The files of
\* the model: one that sets the log channel alone, and one without a log channel
\* that turns moderation off and raises the threshold
Configs ==
    { [log_channel_id |-> 7],
      [log_channel_id |-> None, auto_moderation |-> FALSE, suspicious_threshold |-> 5] }

\* Python truthiness of log_channel_id (bot.py:271)
Truthy(v) == v /= 0

----------------------------------------------------------------------------
(* RuleEngine: substring tests on the lower-cased message text.  A text is  *)
(* the sequence of its characters.                                          *)

\* the message texts the model sends, by content id
ContentIds == {1, 2}

\* "hello", "BOT discord.gg/x"
Text(c) ==
    CASE c = 1 -> <<"h","e","l","l","o">>
      [] c = 2 -> <<"B","O","T"," ","d","i","s","c","o","r","d",".","g","g","/","x">>

\* str.lower() on the letters the texts use
LowerChar(ch) ==
    CASE ch = "B" -> "b"
      [] ch = "O" -> "o"
      [] ch = "T" -> "t"
      [] OTHER -> ch

Lower(s) == [i \in 1..Len(s) |-> LowerChar(s[i])]

\* Python's  sub in s
Contains(s, sub) ==
    \E i \in 1..(Len(s) - Len(sub) + 1) : SubSeq(s, i, i + Len(sub) - 1) = sub

suspicious_words ==
    << <<"h","a","c","k">>,
       <<"c","h","e","a","t">>,
       <<"e","x","p","l","o","i","t">>,
       <<"c","r","a","c","k">>,
       <<"b","y","p","a","s","s">>,
       <<"d","d","o","s">>,
       <<"b","o","t">>,
       <<"s","c","r","i","p","t">>,
       <<"a","u","t","o">>,
       <<"m","a","c","r","o">> >>

\* bot.py:158-164
is_suspicious_content(content) ==
    \E k \in 1..Len(suspicious_words) : Contains(content, suspicious_words[k])

\* bot.py:185-186
contains_invite(content) ==
    \/ Contains(content, <<"d","i","s","c","o","r","d",".","g","g","/">>)
    \/ Contains(content, <<"d","i","s","c","o","r","d","a","p","p",".","c","o","m","/","i","n","v","i","t","e","/">>)

----------------------------------------------------------------------------
(* RateWindowTracker: is_spam, bot.py:166-183 *)

\* datetime.timedelta.seconds of a difference of d whole seconds: the seconds
\* field of the normalised (days, seconds) pair, days left out
TimedeltaSeconds(d) == d % SecondsPerDay

\* bot.py:176  [msg for msg in recent_messages if (now - msg).seconds < 10]
Prune(recent_messages, t) ==
    SelectSeq(recent_messages, LAMBDA msg : TimedeltaSeconds(t - msg) < WindowSeconds)

\* bot.py:178  len(recent_messages) >= 5
Burst(recent_messages) == Len(recent_messages) >= SpamCount

\* the value is_spam returns (bot.py:169-170, 178-179, 183)
is_spam(su, user_id, t) ==
    /\ user_id \in DOMAIN su
    /\ Burst(Prune(su[user_id].recent_messages, t))

\* an is_spam that stores the pruned window with the time of the check whether
\* it reports the burst or not
is_spam_store_always(su, user_id, t) ==
    IF user_id \notin DOMAIN su
    THEN su
    ELSE [su EXCEPT ![user_id].recent_messages =
                        Append(Prune(su[user_id].recent_messages, t), t)]

\* suspicious_users after is_spam (bot.py:169-170, 178-182): nothing is stored
\* for a user without a record, nor when the burst is reported
is_spam_store(su, user_id, t) ==
    IF user_id \notin DOMAIN su
    THEN su
    ELSE LET recent_messages == Prune(su[user_id].recent_messages, t)
         IN  IF Burst(recent_messages)
             THEN su
             ELSE [su EXCEPT ![user_id].recent_messages = Append(recent_messages, t)]

----------------------------------------------------------------------------
(* SuspicionLedger: add_suspicion, bot.py:232-249 *)

\* bot.py:234-238
NewRecord == [total_points |-> 0, reasons |-> <<>>, recent_messages |-> <<>>]

\* add_suspicion that raises the total and forgets the history entry
add_suspicion_no_entry(su, user_id, reason, points, t) ==
    LET base == IF user_id \in DOMAIN su THEN su ELSE su @@ (user_id :> NewRecord)
    IN  [base EXCEPT ![user_id].total_points = @ + points]

\* add_suspicion that writes back a total read before the other handlers'
\* updates: the total of the record as it was created, plus the points
add_suspicion_stale_total(su, user_id, reason, points, t) ==
    LET base == IF user_id \in DOMAIN su THEN su ELSE su @@ (user_id :> NewRecord)
    IN  [base EXCEPT
            ![user_id].total_points = NewRecord.total_points + points,
            ![user_id].reasons =
                Append(@, [reason |-> reason, points |-> points, timestamp |-> t])]

\* suspicious_users after bot.py:233-246
add_suspicion(su, user_id, reason, points, t) ==
    LET base == IF user_id \in DOMAIN su THEN su ELSE su @@ (user_id :> NewRecord)
    IN  [base EXCEPT
            ![user_id].total_points = @ + points,
            ![user_id].reasons =
                Append(@, [reason |-> reason, points |-> points, timestamp |-> t])]

\* an edge-triggered alert: only on the call that crosses the threshold
high_suspicion_on_crossing(total_points, points, cfg) ==
    /\ total_points >= ConfigGet(cfg, "suspicious_threshold", DefaultThreshold)
    /\ total_points - points < ConfigGet(cfg, "suspicious_threshold", DefaultThreshold)

\* bot.py:248: whether add_suspicion calls handle_high_suspicion, given the
\* total after the call and the points of the call
high_suspicion(total_points, points, cfg) ==
    total_points >= ConfigGet(cfg, "suspicious_threshold", DefaultThreshold)

\* a clear that empties the whole ledger
ClearLedger(su, user_id) == [u \in {} |-> su[u]]

\* a clear that empties the record and leaves it in the dict
ResetRecord(su, user_id) == [su EXCEPT ![user_id] = NewRecord]

\* AdminCommands.clear_suspicion, bot.py:527-528: del self.bot.suspicious_users[member.id]
DeleteRecord(su, user_id) == [u \in DOMAIN su \ {user_id} |-> su[u]]

\* suspicious_users after clear_suspicion (bot.py:527-531)
ClearRecord(su, user_id) ==
    IF user_id \in DOMAIN su THEN DeleteRecord(su, user_id) ELSE su

\* MonitoringCommands.scan_user, bot.py:393-411: what the scan of a user shows.
\* A user without a record reads as the empty dict: 0 points, no reason
scan_user(su, user_id) ==
    LET total_points == IF user_id \in DOMAIN su THEN su[user_id].total_points ELSE 0
        reasons == IF user_id \in DOMAIN su THEN su[user_id].reasons ELSE <<>>
        shown == IF Len(reasons) <= ScanReasons THEN reasons
                 ELSE SubSeq(reasons, Len(reasons) - ScanReasons + 1, Len(reasons))
    IN  [total_points |-> total_points,
         status |-> IF total_points = 0 THEN "safe"
                    ELSE IF total_points < ScanDangerPoints THEN "suspicious"
                    ELSE "dangerous",
         reasons |-> [i \in 1..Len(shown) |-> shown[i].reason]]

----------------------------------------------------------------------------
(* EventLog: log_security_event, bot.py:279-284 *)

\* events[-n:] for 0 < n
LastN(events, n) ==
    IF Len(events) <= n THEN events ELSE SubSeq(events, Len(events) - n + 1, Len(events))

\* an eviction that keeps the oldest entries: events[:1000]
TruncateOldest(events) ==
    IF Len(events) > MaxSecurityEvents
    THEN SubSeq(events, 1, MaxSecurityEvents)
    ELSE events

\* bot.py:283-284
Truncate(events) ==
    IF Len(events) > MaxSecurityEvents
    THEN LastN(events, MaxSecurityEvents)
    ELSE events

\* security_events after log_security_event, by the outcome of Database.log_event:
\* a sink failure leaves line 281 with an exception, before the eviction
log_security_event(events, event, sink_ok) ==
    IF sink_ok THEN Truncate(Append(events, event)) ELSE Append(events, event)

\* the SecurityEvent of on_member_join / on_member_remove (bot.py:111-118, 123-130)
MemberEvent(event_type, user_id, t) ==
    [timestamp |-> t, user_id |-> user_id, event_type |-> event_type, level |-> "low"]

----------------------------------------------------------------------------
(* MonitoringCommands.show_logs, bot.py:460-489: the selection of the events *)

\* the event_type arguments the model passes to the logs command
EventTypeArgs == {"all", "member_join", "MEMBER_LEAVE", "ban"}

\* the limit arguments the model passes to the logs command
Limits == {-1, 0, 1, DefaultLimit, MaxLogsLimit, MaxLogsLimit + 1}

\* str.upper() on the arguments of the model
Upper(s) ==
    CASE s = "all" -> "ALL"
      [] s = "member_join" -> "MEMBER_JOIN"
      [] s = "ban" -> "BAN"
      [] OTHER -> s

\* Python's  events[start:]  for any integer start: a negative start counts
\* from the end, and both ends are clipped to the list
SliceFrom(events, start) ==
    LET n == Len(events)
        from == IF start < 0
                THEN (IF n + start < 0 THEN 0 ELSE n + start)
                ELSE (IF start > n THEN n ELSE start)
    IN  SubSeq(events, from + 1, n)

\* bot.py:463-464: the limit is lowered to 25, and never raised
ClampLimit(limit) == IF limit > MaxLogsLimit THEN MaxLogsLimit ELSE limit

\* bot.py:466-469: the events of the type asked for, in the order of the list
FilterEvents(events, event_type) ==
    IF event_type /= "all"
    THEN SelectSeq(events, LAMBDA e : e.event_type = Upper(event_type))
    ELSE events

\* bot.py:481-487: the events the embed shows, in the order of its fields
recent_events(events, event_type, limit) ==
    SliceFrom(FilterEvents(events, event_type), -ClampLimit(limit))

----------------------------------------------------------------------------
(* Alerts and moderation actions: calls to the chat platform *)

\* what becomes of the alert once a log channel is configured (bot.py:273-277):
\* get_channel finds no channel and nothing is sent, or channel.send is awaited
\* and delivers the alert or raises
SendOutcomes == {"delivered", "failed", "no_channel"}

\* send_security_alert, bot.py:269-277: nothing is sent without a log channel
\* id or without the channel of that id, and an exception of the send is caught
\* and logged
send_security_alert(cfg, outcome) ==
    IF Truthy(ConfigGet(cfg, "log_channel_id", None)) THEN outcome ELSE "not_configured"

\* bot.py:275: the handler returns to the event loop in send_security_alert
\* only where channel.send is awaited
Suspends(sent) == sent \in {"delivered", "failed"}

\* a send_security_alert without the except clause: a failed send leaves it
alert_raises_on_failure(sent) == sent = "failed"

\* bot.py:272-277: whether an exception leaves send_security_alert, given what
\* became of the send; the except clause catches every Exception of channel.send
alert_raises(sent) == FALSE

----------------------------------------------------------------------------
(* State *)

\* a task slot: where the coroutine stands, its message (or the created_at of
\* its member and whether that time carries a time zone), the rules that triggered, the rules whose points were added,
\* the call that raised, whether the send of the alert of one of its rules
\* failed, and whether the coroutine holds the event loop: it came to where it
\* stands without an await that returned to the loop, and it goes on before
\* any other handler runs
Idle ==
    [pc |-> "idle", user |-> 0, content |-> 0, msg |-> 0, created_at |-> 0, aware |-> FALSE,
     hits |-> <<>>,
     added |-> <<>>, failed |-> "none", alert_failed |-> FALSE, running |-> FALSE]

Free(t) == tasks[t].pc \in {"idle", "done", "raised"}

\* a coroutine holds the event loop
Running == \E t \in Tasks : tasks[t].running

\* the record of a step: the operation, the user it is about, the alert it
\* handed to send_security_alert and what became of it, the moderation actions
\* it issued and those of them that took effect, the points it added, what it
\* reported, the outcome of the sink, the events it showed
Quiet(op, user_id) ==
    [op |-> op, user |-> user_id, alert |-> "none", sent |-> "none", actions |-> <<>>,
     applied |-> <<>>, points |-> 0, result |-> "none", sink |-> "none",
     shown |-> <<>>]

Zero == [msgs |-> 0, cmds |-> 0, members |-> 0, ticks |-> 0]

\* the ledger after a burst of user 1 at time 0: a message with a keyword and
\* four more messages, none of them reported as spam
AfterBurst ==
    1 :> [total_points |-> 1,
          reasons |-> << [reason |-> "suspicious_content", points |-> 1, timestamp |-> 0] >>,
          recent_messages |-> <<0, 0, 0, 0, 0>>]

\* the is_spam calls of that burst
BurstChecks == [i \in 1..SpamCount |-> [at |-> 0, result |-> FALSE]]

\* the bot after user 1 has joined and sent the burst; user 2 has sent nothing
\* yet
Init ==
    /\ config \in Configs
    /\ security_events = << MemberEvent("MEMBER_JOIN", 1, 0) >>
    /\ suspicious_users = AfterBurst
    /\ now = 0
    /\ tasks = [t \in Tasks |-> Idle]
    /\ db_messages = {}
    /\ spam_checks = [u \in Users |-> IF u = 1 THEN BurstChecks ELSE <<>>]
    /\ appended = << MemberEvent("MEMBER_JOIN", 1, 0) >>
    /\ last = Quiet("init", 0)
    /\ counts = [Zero EXCEPT !.members = 1]

\* what a step of a task leaves alone besides the ledger and the task itself
TaskFrame == UNCHANGED <<config, security_events, now, appended, counts>>

\* the clock advances
Tick(d) ==
    /\ now' = now + d
    /\ counts' = [counts EXCEPT !.ticks = @ + 1]
    /\ last' = Quiet("tick", 0)
    /\ UNCHANGED <<config, security_events, suspicious_users, tasks, db_messages,
                   spam_checks, appended>>

----------------------------------------------------------------------------
(* on_message and process_message, bot.py:133-156.  A step of a task runs   *)
(* from one place where the coroutine may return to the event loop to the   *)
(* next; a task that has not returned to the loop is running and takes its  *)
(* next step before any other handler moves.                                *)

\* bot.py:133-137: a message of a bot is dropped; any other starts process_message.
\* (Line 138 runs after process_message has returned and changes no state.)
on_message(t, user_id, c, author_bot) ==
    /\ Free(t)
    /\ \A t2 \in Tasks : t2 < t => ~Free(t2)
    /\ counts' = [counts EXCEPT !.msgs = @ + 1]
    /\ tasks' = IF author_bot
                THEN tasks
                ELSE [tasks EXCEPT ![t] = [Idle EXCEPT !.pc = "kw", !.user = user_id,
                                                      !.content = c,
                                                      !.msg = counts.msgs + 1,
                                                      !.running = TRUE]]
    /\ last' = [Quiet("on_message", user_id) EXCEPT
                   !.result = IF author_bot THEN "ignored" ELSE "started"]
    /\ UNCHANGED <<config, security_events, suspicious_users, now, db_messages,
                   spam_checks, appended>>

\* the add_suspicion call of a handler (bot.py:232-249): the ledger update and,
\* over the threshold, the alert of handle_high_suspicion (bot.py:251-267)
AddSuspicionCall(op, user_id, reason, points, outcome) ==
    LET su == add_suspicion(suspicious_users, user_id, reason, points, now)
        high == high_suspicion(su[user_id].total_points, points, config)
        sent == IF high THEN send_security_alert(config, outcome) ELSE "none"
    IN  /\ suspicious_users' = su
        /\ last' = [Quiet(op, user_id) EXCEPT
                       !.points = points,
                       !.alert = IF high THEN "high" ELSE "none",
                       !.sent = sent,
                       !.result = IF alert_raises(sent) THEN "raised" ELSE "none"]

\* bot.py:144-145: the keyword rule and handle_suspicious_message (bot.py:188-199),
\* up to the send of its alert
ProcessKeyword(t, outcome) ==
    /\ tasks[t].pc = "kw"
    /\ IF is_suspicious_content(Lower(Text(tasks[t].content)))
       THEN LET sent == send_security_alert(config, outcome)
            IN  /\ last' = [Quiet("keyword", tasks[t].user) EXCEPT
                               !.alert = "suspicious",
                               !.sent = sent,
                               !.result = IF alert_raises(sent) THEN "raised" ELSE "none"]
                /\ tasks' = [tasks EXCEPT
                       ![t].pc = IF alert_raises(sent) THEN "raised" ELSE "kw_add",
                       ![t].failed = IF alert_raises(sent) THEN "alert" ELSE @,
                       ![t].alert_failed = @ \/ sent = "failed",
                       ![t].hits = Append(@, "suspicious_content"),
                       ![t].running = ~Suspends(sent)]
       ELSE /\ last' = Quiet("keyword", tasks[t].user)
            /\ tasks' = [tasks EXCEPT ![t].pc = "spam", ![t].running = TRUE]
    /\ UNCHANGED <<suspicious_users, db_messages, spam_checks>>
    /\ TaskFrame

\* bot.py:146: add_suspicion, up to the send of the high-suspicion alert
AddKeyword(t, outcome) ==
    /\ tasks[t].pc = "kw_add"
    /\ AddSuspicionCall("add_keyword", tasks[t].user, "suspicious_content", 1, outcome)
    /\ tasks' = [tasks EXCEPT
           ![t].pc = IF alert_raises(last'.sent) THEN "raised" ELSE "spam",
           ![t].failed = IF alert_raises(last'.sent) THEN "alert" ELSE @,
           ![t].added = Append(@, "suspicious_content"),
           ![t].running = ~Suspends(last'.sent)]
    /\ UNCHANGED <<db_messages, spam_checks>>
    /\ TaskFrame

\* bot.py:148-149: the rate window and handle_spam (bot.py:201-211), up to the
\* send of its alert
ProcessSpam(t, outcome) ==
    /\ tasks[t].pc = "spam"
    /\ LET user_id == tasks[t].user
           spam == is_spam(suspicious_users, user_id, now)
           sent == send_security_alert(config, outcome)
       IN  /\ suspicious_users' = is_spam_store(suspicious_users, user_id, now)
           /\ spam_checks' = [spam_checks EXCEPT
                  ![user_id] = Append(@, [at |-> now, result |-> spam])]
           /\ IF spam
              THEN /\ last' = [Quiet("spam", user_id) EXCEPT
                                  !.alert = "spam",
                                  !.sent = sent,
                                  !.result = IF alert_raises(sent) THEN "raised"
                                             ELSE "none"]
                   /\ tasks' = [tasks EXCEPT
                          ![t].pc = IF alert_raises(sent) THEN "raised" ELSE "spam_mod",
                          ![t].failed = IF alert_raises(sent) THEN "alert" ELSE @,
                          ![t].alert_failed = @ \/ sent = "failed",
                          ![t].hits = Append(@, "spam"),
                          ![t].running = ~Suspends(sent)]
              ELSE /\ last' = Quiet("spam", user_id)
                   /\ tasks' = [tasks EXCEPT ![t].pc = "invite", ![t].running = TRUE]
    /\ UNCHANGED db_messages
    /\ TaskFrame

\* bot.py:213-214: handle_spam after the send of its alert reads auto_moderation
\* and awaits author.timeout; an exception of author.timeout leaves handle_spam
\* and process_message
ModerateSpam(t, timeout_ok) ==
    /\ tasks[t].pc = "spam_mod"
    /\ LET auto == ConfigGet(config, "auto_moderation", TRUE)
       IN  /\ last' = [Quiet("spam_moderation", tasks[t].user) EXCEPT
                          !.actions = IF auto THEN <<"timeout_5">> ELSE <<>>,
                          !.applied = IF auto /\ timeout_ok THEN <<"timeout_5">>
                                      ELSE <<>>,
                          !.result = IF auto /\ ~timeout_ok THEN "raised" ELSE "none"]
           /\ tasks' = [tasks EXCEPT
                  ![t].pc = IF auto /\ ~timeout_ok THEN "raised" ELSE "spam_add",
                  ![t].failed = IF auto /\ ~timeout_ok THEN "spam_timeout" ELSE @,
                  ![t].running = ~auto]
    /\ UNCHANGED <<suspicious_users, db_messages, spam_checks>>
    /\ TaskFrame

\* bot.py:150
AddSpam(t, outcome) ==
    /\ tasks[t].pc = "spam_add"
    /\ AddSuspicionCall("add_spam", tasks[t].user, "spam", 2, outcome)
    /\ tasks' = [tasks EXCEPT
           ![t].pc = IF alert_raises(last'.sent) THEN "raised" ELSE "invite",
           ![t].failed = IF alert_raises(last'.sent) THEN "alert" ELSE @,
           ![t].added = Append(@, "spam"),
           ![t].running = ~Suspends(last'.sent)]
    /\ UNCHANGED <<db_messages, spam_checks>>
    /\ TaskFrame

\* bot.py:152-153: the invite rule and handle_invite (bot.py:216-226), up to the
\* send of its alert
ProcessInvite(t, outcome) ==
    /\ tasks[t].pc = "invite"
    /\ IF contains_invite(Lower(Text(tasks[t].content)))
       THEN LET sent == send_security_alert(config, outcome)
            IN  /\ last' = [Quiet("invite", tasks[t].user) EXCEPT
                               !.alert = "invite",
                               !.sent = sent,
                               !.result = IF alert_raises(sent) THEN "raised" ELSE "none"]
                /\ tasks' = [tasks EXCEPT
                       ![t].pc = IF alert_raises(sent) THEN "raised" ELSE "invite_mod",
                       ![t].failed = IF alert_raises(sent) THEN "alert" ELSE @,
                       ![t].alert_failed = @ \/ sent = "failed",
                       ![t].hits = Append(@, "invite_link"),
                       ![t].running = ~Suspends(sent)]
       ELSE /\ last' = Quiet("invite", tasks[t].user)
            /\ tasks' = [tasks EXCEPT ![t].pc = "log", ![t].running = TRUE]
    /\ UNCHANGED <<suspicious_users, db_messages, spam_checks>>
    /\ TaskFrame

\* bot.py:228-229: handle_invite after the send of its alert reads
\* auto_moderation and awaits message.delete; an exception of message.delete
\* leaves handle_invite and process_message
ModerateInvite(t, delete_ok) ==
    /\ tasks[t].pc = "invite_mod"
    /\ LET auto == ConfigGet(config, "auto_moderation", TRUE)
       IN  /\ last' = [Quiet("invite_moderation", tasks[t].user) EXCEPT
                          !.actions = IF auto THEN <<"delete">> ELSE <<>>,
                          !.applied = IF auto /\ delete_ok THEN <<"delete">> ELSE <<>>,
                          !.result = IF auto /\ ~delete_ok THEN "raised" ELSE "none"]
           /\ tasks' = [tasks EXCEPT
                  ![t].pc = IF ~auto THEN "invite_add"
                            ELSE IF delete_ok THEN "invite_timeout" ELSE "raised",
                  ![t].failed = IF auto /\ ~delete_ok THEN "invite_delete" ELSE @,
                  ![t].running = ~auto]
    /\ UNCHANGED <<suspicious_users, db_messages, spam_checks>>
    /\ TaskFrame

\* bot.py:230: handle_invite after message.delete awaits author.timeout; an
\* exception of author.timeout leaves handle_invite and process_message
TimeoutInvite(t, timeout_ok) ==
    /\ tasks[t].pc = "invite_timeout"
    /\ last' = [Quiet("invite_timeout", tasks[t].user) EXCEPT
                   !.actions = <<"timeout_10">>,
                   !.applied = IF timeout_ok THEN <<"timeout_10">> ELSE <<>>,
                   !.result = IF timeout_ok THEN "none" ELSE "raised"]
    /\ tasks' = [tasks EXCEPT
           ![t].pc = IF timeout_ok THEN "invite_add" ELSE "raised",
           ![t].failed = IF timeout_ok THEN @ ELSE "invite_timeout",
           ![t].running = FALSE]
    /\ UNCHANGED <<suspicious_users, db_messages, spam_checks>>
    /\ TaskFrame

\* bot.py:154
AddInvite(t, outcome) ==
    /\ tasks[t].pc = "invite_add"
    /\ AddSuspicionCall("add_invite", tasks[t].user, "invite_link", 3, outcome)
    /\ tasks' = [tasks EXCEPT
           ![t].pc = IF alert_raises(last'.sent) THEN "raised" ELSE "log",
           ![t].failed = IF alert_raises(last'.sent) THEN "alert" ELSE @,
           ![t].added = Append(@, "invite_link"),
           ![t].running = ~Suspends(last'.sent)]
    /\ UNCHANGED <<db_messages, spam_checks>>
    /\ TaskFrame

\* bot.py:156: log_message_event (bot.py:286-294) and Database.log_message
\* (bot.py:591-610); an exception of sqlite leaves process_message
LogMessage(t, db_ok) ==
    /\ tasks[t].pc = "log"
    /\ db_messages' = IF db_ok THEN db_messages \cup {tasks[t].msg} ELSE db_messages
    /\ tasks' = [tasks EXCEPT
           ![t].pc = IF db_ok THEN "done" ELSE "raised",
           ![t].failed = IF db_ok THEN @ ELSE "db",
           ![t].running = FALSE]
    /\ last' = [Quiet("log_message", tasks[t].user) EXCEPT
                   !.sink = IF db_ok THEN "ok" ELSE "failed",
                   !.result = IF db_ok THEN "returned" ELSE "raised"]
    /\ UNCHANGED <<suspicious_users, spam_checks>>
    /\ TaskFrame

----------------------------------------------------------------------------
(* Commands, bot.py:419-454 and 518-531.  Each changes the shared state in  *)
(* one uninterrupted block, after its last await that can fail.             *)

CmdFrame ==
    /\ counts' = [counts EXCEPT !.cmds = @ + 1]
    /\ UNCHANGED <<config, security_events, now, tasks, db_messages, spam_checks,
                   appended>>

\* ModerationCommands.warn_user, bot.py:421-432: an exception of ctx.send leaves
\* the command before add_suspicion
warn_user(user_id, send_ok, outcome) ==
    /\ IF send_ok
       THEN AddSuspicionCall("warn", user_id, "manual_warning", 2, outcome)
       ELSE /\ suspicious_users' = suspicious_users
            /\ last' = [Quiet("warn", user_id) EXCEPT !.result = "raised"]
    /\ CmdFrame

\* ModerationCommands.timeout_user, bot.py:436-454: an exception of
\* member.timeout or of ctx.send is caught and reported with ctx.send
timeout_user(user_id, timeout_ok, send_ok, report_ok, outcome) ==
    /\ IF timeout_ok /\ send_ok
       THEN /\ suspicious_users' =
                   add_suspicion(suspicious_users, user_id, "manual_timeout", 3, now)
            /\ LET high == high_suspicion(suspicious_users'[user_id].total_points, 3,
                                          config)
               IN  last' = [Quiet("timeout", user_id) EXCEPT
                               !.actions = <<"timeout">>,
                               !.applied = <<"timeout">>,
                               !.points = 3,
                               !.alert = IF high THEN "high" ELSE "none",
                               !.sent = IF high THEN send_security_alert(config, outcome)
                                        ELSE "none",
                               !.result = "timed_out"]
       ELSE /\ suspicious_users' = suspicious_users
            /\ last' = [Quiet("timeout", user_id) EXCEPT
                           !.actions = <<"timeout">>,
                           !.applied = IF timeout_ok THEN <<"timeout">> ELSE <<>>,
                           !.result = IF report_ok THEN "error" ELSE "raised"]
    /\ CmdFrame

\* AdminCommands.clear_suspicion, bot.py:526-531
clear_suspicion(user_id) ==
    /\ suspicious_users' = ClearRecord(suspicious_users, user_id)
    /\ last' = [Quiet("clear_suspicion", user_id) EXCEPT
                   !.result = IF user_id \in DOMAIN suspicious_users
                              THEN "cleared" ELSE "no_suspicion"]
    /\ CmdFrame

\* a reload that builds the bot anew: the configuration, an empty ledger and an
\* empty event list
reload_config_fresh(cfg) ==
    /\ counts' = [counts EXCEPT !.cmds = @ + 1]
    /\ config' = cfg
    /\ suspicious_users' = <<>>
    /\ security_events' = <<>>
    /\ last' = [Quiet("reload", 0) EXCEPT !.result = "reloaded"]
    /\ UNCHANGED <<now, tasks, db_messages, spam_checks, appended>>

\* AdminCommands.reload_config, bot.py:520-522
reload_config(cfg) ==
    /\ counts' = [counts EXCEPT !.cmds = @ + 1]
    /\ config' = cfg
    /\ last' = [Quiet("reload", 0) EXCEPT !.result = "reloaded"]
    /\ UNCHANGED <<security_events, suspicious_users, now, tasks, db_messages,
                   spam_checks, appended>>

\* MonitoringCommands.show_logs, bot.py:462-489: reads the event list and changes
\* nothing; without an event of the type asked for it reports that no log was
\* found (bot.py:471-473)
show_logs(event_type, limit) ==
    /\ last' = IF FilterEvents(security_events, event_type) = <<>>
               THEN [Quiet("logs", 0) EXCEPT !.result = "not_found"]
               ELSE [Quiet("logs", 0) EXCEPT
                        !.result = "shown",
                        !.shown = recent_events(security_events, event_type, limit)]
    /\ UNCHANGED <<config, security_events, suspicious_users, now, tasks, db_messages,
                   spam_checks, appended, counts>>

----------------------------------------------------------------------------
(* Member events, bot.py:105-131 *)

\* the account ages, in days, of the members that join: a day under the
\* limit of check_new_member, and well over it
AccountAges == {NewAccountDays - 1, 30}

\* the members that join: with a naive created_at of either age, or with a
\* created_at that carries a time zone
JoiningMembers ==
    {[age |-> a, aware |-> FALSE] : a \in AccountAges}
        \cup {[age |-> NewAccountDays - 1, aware |-> TRUE]}

\* timedelta.days of now - created_at (bot.py:312, 314)
AccountAgeDays(t, created_at) == (t - created_at) \div SecondsPerDay

\* the log_security_event call of a member handler (bot.py:279-284): an
\* exception of Database.log_event (bot.py:569-589) is not caught
LogSecurityEventCall(event, sink_ok) ==
    /\ security_events' = log_security_event(security_events, event, sink_ok)
    /\ appended' = Append(appended, event)

\* what a step of on_member_join leaves alone before it records the event
JoinFrame ==
    UNCHANGED <<config, security_events, suspicious_users, now, db_messages,
                spam_checks, appended>>

\* bot.py:105-107: on_member_join reads welcome_message and awaits
\* send_welcome_message (bot.py:296-309), whose member.send returns to the event
\* loop and whose exceptions are swallowed.  The member has an account of
\* age_days days; its created_at is naive or, as discord.py 2 hands it over,
\* carries a time zone.
on_member_join(t, user_id, age_days, aware) ==
    /\ Free(t)
    /\ \A t2 \in Tasks : t2 < t => ~Free(t2)
    /\ tasks' = [tasks EXCEPT
           ![t] = [Idle EXCEPT !.pc = "check", !.user = user_id,
                               !.created_at = now - age_days * SecondsPerDay,
                               !.aware = aware,
                               !.running = ~ConfigGet(config, "welcome_message", TRUE)]]
    /\ last' = [Quiet("welcome", user_id) EXCEPT !.result = "started"]
    /\ counts' = [counts EXCEPT !.members = @ + 1]
    /\ JoinFrame

\* bot.py:109: check_new_member (bot.py:311-324), up to the send of the alert
\* of an account younger than 7 days.  The age is taken from the clock when
\* check_new_member runs; the naive datetime.now() minus a created_at with a
\* time zone raises TypeError, which leaves check_new_member and on_member_join
check_new_member(t, outcome) ==
    /\ tasks[t].pc = "check"
    /\ IF tasks[t].aware
       THEN /\ last' = [Quiet("check_new_member", tasks[t].user) EXCEPT
                           !.result = "raised"]
            /\ tasks' = [tasks EXCEPT ![t].pc = "raised",
                                      ![t].failed = "created_at",
                                      ![t].running = FALSE]
       ELSE LET new == AccountAgeDays(now, tasks[t].created_at) < NewAccountDays
                sent == IF new THEN send_security_alert(config, outcome) ELSE "none"
            IN  /\ last' = [Quiet("check_new_member", tasks[t].user) EXCEPT
                               !.alert = IF new THEN "new_account" ELSE "none",
                               !.sent = sent]
                /\ tasks' = [tasks EXCEPT ![t].pc = "join_log",
                                          ![t].running = ~Suspends(sent)]
    /\ UNCHANGED counts
    /\ JoinFrame

\* bot.py:110-119: the event of the join, with the time of its construction,
\* and log_security_event
LogMemberJoin(t, sink_ok) ==
    /\ tasks[t].pc = "join_log"
    /\ LogSecurityEventCall(MemberEvent("MEMBER_JOIN", tasks[t].user, now), sink_ok)
    /\ last' = [Quiet("member_join", tasks[t].user) EXCEPT
                   !.sink = IF sink_ok THEN "ok" ELSE "failed",
                   !.result = IF sink_ok THEN "returned" ELSE "raised"]
    /\ tasks' = [tasks EXCEPT
           ![t].pc = IF sink_ok THEN "done" ELSE "raised",
           ![t].failed = IF sink_ok THEN @ ELSE "db",
           ![t].running = FALSE]
    /\ UNCHANGED <<config, suspicious_users, now, db_messages, spam_checks, counts>>

\* bot.py:121-131
on_member_remove(user_id, sink_ok) ==
    /\ LogSecurityEventCall(MemberEvent("MEMBER_LEAVE", user_id, now), sink_ok)
    /\ last' = [Quiet("member_remove", user_id) EXCEPT
                   !.sink = IF sink_ok THEN "ok" ELSE "failed",
                   !.result = IF sink_ok THEN "returned" ELSE "raised"]
    /\ counts' = [counts EXCEPT !.members = @ + 1]
    /\ UNCHANGED <<config, suspicious_users, now, tasks, db_messages, spam_checks>>

----------------------------------------------------------------------------
(* Specifications *)

\* a step of the process_message task in slot t
TaskStep(t) ==
    \/ \E outcome \in SendOutcomes : ProcessKeyword(t, outcome)
    \/ \E outcome \in SendOutcomes : AddKeyword(t, outcome)
    \/ \E outcome \in SendOutcomes : ProcessSpam(t, outcome)
    \/ \E timeout_ok \in BOOLEAN : ModerateSpam(t, timeout_ok)
    \/ \E outcome \in SendOutcomes : AddSpam(t, outcome)
    \/ \E outcome \in SendOutcomes : ProcessInvite(t, outcome)
    \/ \E delete_ok \in BOOLEAN : ModerateInvite(t, delete_ok)
    \/ \E timeout_ok \in BOOLEAN : TimeoutInvite(t, timeout_ok)
    \/ \E outcome \in SendOutcomes : AddInvite(t, outcome)
    \/ \E db_ok \in BOOLEAN : LogMessage(t, db_ok)

\* the commands that touch the ledger
LedgerCommand ==
    \/ \E u \in Users, send_ok \in BOOLEAN, outcome \in SendOutcomes :
           warn_user(u, send_ok, outcome)
    \/ \E u \in Users, timeout_ok, send_ok, report_ok \in BOOLEAN,
          outcome \in SendOutcomes :
           timeout_user(u, timeout_ok, send_ok, report_ok, outcome)
    \/ \E u \in Users : clear_suspicion(u)

\* the moderation core: messages of two users in two concurrent handlers,
\* interleaved with the commands at the awaits.  A running task goes on alone;
\* while every task waits in an await or has ended, any waiting task may
\* resume, a message may arrive and a command may run.
Next ==
    \/ /\ counts.msgs + counts.cmds < MaxOps
       /\ ~Running
       /\ \E t \in Tasks, u \in Users, c \in ContentIds :
              on_message(t, u, c, FALSE)
    \/ \E t \in Tasks :
           /\ tasks[t].running \/ ~Running
           /\ TaskStep(t)
    \/ /\ counts.msgs + counts.cmds < MaxOps
       /\ ~Running
       /\ LedgerCommand
    \/ /\ counts.msgs + counts.cmds < MaxOps
       /\ ~Running
       /\ \E cfg \in Configs : reload_config(cfg)

Spec == Init /\ [][Next]_vars

\* XillenSecurityBot.__init__, bot.py:44-47: the bot as constructed
InitWindow ==
    /\ config \in Configs
    /\ security_events = <<>>
    /\ suspicious_users = <<>>
    /\ now = 0
    /\ tasks = [t \in Tasks |-> Idle]
    /\ db_messages = {}
    /\ spam_checks = [u \in Users |-> <<>>]
    /\ appended = <<>>
    /\ last = Quiet("init", 0)
    /\ counts = Zero

\* the rate window: from construction, one warning, the messages of user 1
\* and the clock, which advances between the handlers and at their awaits
NextWindow ==
    \/ /\ counts.msgs < MaxWindowMsgs
       /\ ~Running
       /\ \E t \in Tasks, author_bot \in BOOLEAN : on_message(t, 1, 1, author_bot)
    \/ \E t \in Tasks :
           /\ tasks[t].running \/ ~Running
           /\ \/ \E outcome \in SendOutcomes : ProcessKeyword(t, outcome)
              \/ \E outcome \in SendOutcomes : ProcessSpam(t, outcome)
              \/ \E timeout_ok \in BOOLEAN : ModerateSpam(t, timeout_ok)
              \/ \E outcome \in SendOutcomes : AddSpam(t, outcome)
              \/ \E outcome \in SendOutcomes : ProcessInvite(t, outcome)
              \/ LogMessage(t, TRUE)
    \/ /\ counts.cmds = 0
       /\ ~Running
       /\ warn_user(1, TRUE, "delivered")
    \/ /\ counts.ticks < MaxTicks
       /\ ~Running
       /\ \E d \in ClockSteps : Tick(d)

SpecWindow == InitWindow /\ [][NextWindow]_vars

\* the events of PreFill earlier member events, one a second, every sink write
\* having succeeded: the list holds the last 1000 of them
EarlierEvents ==
    [i \in 1..PreFill |->
        MemberEvent(IF i % 2 = 1 THEN "MEMBER_JOIN" ELSE "MEMBER_LEAVE", 1, i)]

\* the bot after those member events
InitLog ==
    /\ config \in Configs
    /\ security_events = LastN(EarlierEvents, MaxSecurityEvents)
    /\ suspicious_users = <<>>
    /\ now = PreFill
    /\ tasks = [t \in Tasks |-> Idle]
    /\ db_messages = {}
    /\ spam_checks = [u \in Users |-> <<>>]
    /\ appended = EarlierEvents
    /\ last = Quiet("init", 0)
    /\ counts = [Zero EXCEPT !.members = PreFill]

\* a step of the on_member_join task in slot t
JoinStep(t) ==
    \/ \E outcome \in SendOutcomes : check_new_member(t, outcome)
    \/ \E sink_ok \in BOOLEAN : LogMemberJoin(t, sink_ok)

\* the event list: member events with a sink that may fail, the joins
\* interleaved with the other member handlers at their awaits
NextLog ==
    \/ /\ counts.members < PreFill + MaxRingCalls
       /\ ~Running
       /\ \E t \in Tasks, u \in Users, m \in JoiningMembers :
              on_member_join(t, u, m.age, m.aware)
    \/ \E t \in Tasks :
           /\ tasks[t].running \/ ~Running
           /\ JoinStep(t)
    \/ /\ counts.members < PreFill + MaxRingCalls
       /\ ~Running
       /\ \E u \in Users, sink_ok \in BOOLEAN : on_member_remove(u, sink_ok)

SpecLog == InitLog /\ [][NextLog]_vars

\* the events of QueryFill earlier member events, one a second
QueryEvents ==
    [i \in 1..QueryFill |->
        MemberEvent(IF i % 2 = 1 THEN "MEMBER_JOIN" ELSE "MEMBER_LEAVE", 1, i)]

\* the bot after those member events
InitQuery ==
    /\ config \in Configs
    /\ security_events = QueryEvents
    /\ suspicious_users = <<>>
    /\ now = QueryFill
    /\ tasks = [t \in Tasks |-> Idle]
    /\ db_messages = {}
    /\ spam_checks = [u \in Users |-> <<>>]
    /\ appended = QueryEvents
    /\ last = Quiet("init", 0)
    /\ counts = [Zero EXCEPT !.members = QueryFill]

\* the logs command and reload_config between the steps of the member
\* handlers, at their awaits; the clock stands still
NextQuery ==
    \/ /\ counts.members < QueryFill + MaxQueryCalls
       /\ ~Running
       /\ \E t \in Tasks, u \in Users, m \in JoiningMembers :
              on_member_join(t, u, m.age, m.aware)
    \/ \E t \in Tasks :
           /\ tasks[t].running \/ ~Running
           /\ \/ \E outcome \in SendOutcomes : check_new_member(t, outcome)
              \/ LogMemberJoin(t, TRUE)
    \/ /\ counts.members < QueryFill + MaxQueryCalls
       /\ ~Running
       /\ \E u \in Users : on_member_remove(u, TRUE)
    \/ /\ counts.cmds < MaxQueryReloads
       /\ ~Running
       /\ \E cfg \in Configs : reload_config(cfg)
    \/ /\ ~Running
       /\ \E event_type \in EventTypeArgs, limit \in Limits : show_logs(event_type, limit)

SpecQuery == InitQuery /\ [][NextQuery]_vars

\* the member handlers while the configuration is reloaded and the clock
\* advances at their awaits, from the bot after user 1 has joined
NextJoin ==
    \/ /\ counts.members < 1 + MaxQueryCalls
       /\ ~Running
       /\ \E t \in Tasks, u \in Users, m \in JoiningMembers :
              on_member_join(t, u, m.age, m.aware)
    \/ \E t \in Tasks :
           /\ tasks[t].running \/ ~Running
           /\ JoinStep(t)
    \/ /\ counts.members < 1 + MaxQueryCalls
       /\ ~Running
       /\ \E u \in Users, sink_ok \in BOOLEAN : on_member_remove(u, sink_ok)
    \/ /\ counts.cmds < MaxQueryReloads
       /\ ~Running
       /\ \E cfg \in Configs : reload_config(cfg)
    \/ /\ counts.ticks < MaxTicks
       /\ ~Running
       /\ \E d \in ClockSteps : Tick(d)

SpecJoin == Init /\ [][NextJoin]_vars

----------------------------------------------------------------------------
(* Properties *)

RECURSIVE SumPoints(_)
SumPoints(reasons) ==
    IF reasons = <<>> THEN 0 ELSE reasons[1].points + SumPoints(Tail(reasons))

Threshold == ConfigGet(config, "suspicious_threshold", DefaultThreshold)

Min(a, b) == IF a <= b THEN a ELSE b

\* C1: in every reachable state, whatever the interleaving of the message
\* handlers, the warn and timeout commands and clear_suspicion, each record's
\* total_points is the sum of the points of the entries of its reasons list.
C1_TotalIsSumOfReasons ==
    \A u \in DOMAIN suspicious_users :
        suspicious_users[u].total_points = SumPoints(suspicious_users[u].reasons)

\* two handlers of the same user are in flight, each has added points
C1_Witness ==
    /\ tasks[1].user = tasks[2].user
    /\ ~Free(1) /\ ~Free(2)
    /\ tasks[1].added /= <<>> /\ tasks[2].added /= <<>>
    /\ tasks[1].user \in DOMAIN suspicious_users
    /\ Len(suspicious_users[tasks[1].user].reasons) >= 3

\* C2: of any 5 consecutive spam checks of a user that fall within a 10-second
\* span, the 5th returns true.
C2_FifthCheckReportsBurst ==
    \A u \in Users :
        \A i \in SpamCount..Len(spam_checks[u]) :
            spam_checks[u][i].at - spam_checks[u][i - SpamCount + 1].at < WindowSeconds
                => spam_checks[u][i].result

\* C3: a spam check for a user without a record creates a window for that user
\* holding the time of the check.
C3_UnknownUserGetsWindow ==
    [][\A t \in Tasks :
          (/\ tasks[t].pc = "spam"
           /\ tasks'[t].pc /= "spam"
           /\ tasks[t].user \notin DOMAIN suspicious_users)
          => (/\ tasks[t].user \in DOMAIN suspicious_users'
              /\ suspicious_users'[tasks[t].user].recent_messages = <<now>>)]_vars

ModerationFailures == {"spam_timeout", "invite_delete", "invite_timeout"}

\* C4: a failing moderation action (the timeout of handle_spam, the delete or
\* the timeout of handle_invite) does not end process_message: the points of
\* the rule are added, the later rules run and the message trace is written.
C4_ModerationFailureSwallowed ==
    \A t \in Tasks :
        tasks[t].failed \in ModerationFailures
            => /\ tasks[t].pc /= "raised"
               /\ (tasks[t].pc = "done"
                      => /\ tasks[t].added = tasks[t].hits
                         /\ tasks[t].msg \in db_messages)

\* C5: an add_suspicion call emits the high-suspicion alert if and only if the
\* user's total after the call is at least the configured threshold, on every
\* such call and not only on the first.
C5_AlertOnEveryCallOverThreshold ==
    last.points > 0
        => (last.alert = "high"
               <=> suspicious_users[last.user].total_points >= Threshold)

\* an alert on a call made when the total was over the threshold already
C5_Witness ==
    /\ last.points > 0
    /\ last.alert = "high"
    /\ suspicious_users[last.user].total_points - last.points >= Threshold

\* C6: after a spam check that stores the window, no stored timestamp is older
\* than the 10-second horizon, whatever its age.
C6_NoStaleTimestamp ==
    (last.op = "spam" /\ last.alert = "none" /\ last.user \in DOMAIN suspicious_users)
        => \A i \in 1..Len(suspicious_users[last.user].recent_messages) :
               now - suspicious_users[last.user].recent_messages[i] <= WindowSeconds

\* C7: every processing of a message ends with the message trace in the sink,
\* whichever rules triggered and whatever became of the alerts and moderation
\* actions before it (a failure of the sink itself left aside).
C7_TraceAlwaysWritten ==
    \A t \in Tasks :
        (tasks[t].pc \in {"done", "raised"} /\ tasks[t].failed /= "db")
            => tasks[t].msg \in db_messages

\* C8: once a log_security_event call has returned, the list holds the last
\* min(n, 1000) of the n events appended so far, in the order of insertion, and
\* so at most 1000 of them.
C8_RingHoldsLastEvents ==
    (last.op \in {"member_join", "member_remove"} /\ last.result = "returned")
        => /\ security_events =
                  LastN(appended, Min(Len(appended), MaxSecurityEvents))
           /\ Len(security_events) <= MaxSecurityEvents

\* a call has returned after more than 1000 events, one of them left in the
\* list over its capacity by a failed call before
C8_Witness ==
    /\ last.op \in {"member_join", "member_remove"}
    /\ last.result = "returned"
    /\ Len(appended) >= MaxSecurityEvents + 2
    /\ Len(security_events) = MaxSecurityEvents

\* C9: when the sink fails in log_security_event, the member handler still
\* returns normally and the list is within its capacity.
C9_SinkFailureContained ==
    (last.op \in {"member_join", "member_remove"} /\ last.sink = "failed")
        => /\ last.result = "returned"
           /\ Len(security_events) <= MaxSecurityEvents

\* the event_type the event log would hold for a rule
EventTypeOf(rule) ==
    CASE rule = "suspicious_content" -> "SUSPICIOUS_CONTENT"
      [] rule = "spam" -> "SPAM"
      [] rule = "invite_link" -> "INVITE_LINK"

\* C10: every rule detection of a processed message has its SecurityEvent, of
\* the type of the rule, in the in-memory event list.
C10_DetectionIsLogged ==
    \A t \in Tasks :
        tasks[t].pc = "done"
            => \A i \in 1..Len(tasks[t].hits) :
                   \E k \in 1..Len(security_events) :
                       /\ security_events[k].event_type = EventTypeOf(tasks[t].hits[i])
                       /\ security_events[k].user_id = tasks[t].user

\* C11: whatever integer limit the logs command is given (0, a negative
\* number, a number over 25), it shows at most 25 events.
C11_AtMostLimitShown ==
    last.op = "logs" => Len(last.shown) <= MaxLogsLimit

\* how many entries of a window carry the time t
CountAt(recent_messages, t) ==
    Cardinality({i \in 1..Len(recent_messages) : recent_messages[i] = t})

\* C12: every spam check of a user with a record stores the time of the check
\* in the user's window, whether it reports a burst or not: the window holds
\* one more entry of that time after the check than before.
C12_EveryCheckStored ==
    [][\A t \in Tasks :
          (/\ tasks[t].pc = "spam"
           /\ tasks'[t].pc /= "spam"
           /\ tasks[t].user \in DOMAIN suspicious_users)
          => CountAt(suspicious_users'[tasks[t].user].recent_messages, now)
                 = CountAt(suspicious_users[tasks[t].user].recent_messages, now) + 1]_vars

\* the window stored for a user; a user without a record has none
WindowOf(su, user_id) ==
    IF user_id \in DOMAIN su THEN su[user_id].recent_messages ELSE <<>>

\* the last five checks of a user: four within 10 seconds, the fifth 11 seconds
\* after the fourth
FourThenLate(checks) ==
    /\ Len(checks) >= SpamCount
    /\ checks[Len(checks) - 1].at - checks[Len(checks) - 4].at < WindowSeconds
    /\ checks[Len(checks)].at = checks[Len(checks) - 1].at + WindowSeconds + 1

\* C13: after 4 spam checks of a user within 10 seconds and a 5th check 11
\* seconds later, the 5th check has returned false and the user's window holds
\* exactly 1 entry.
C13_LateCheckRestartsWindow ==
    (last.op = "spam" /\ FourThenLate(spam_checks[last.user]))
        => /\ ~spam_checks[last.user][Len(spam_checks[last.user])].result
           /\ Len(WindowOf(suspicious_users, last.user)) = 1

\* the rules whose points a task has added when it stands at pc, given the
\* rules that triggered: all of them, but the last one before its add_suspicion
AddedAt(pc, hits) ==
    IF pc \in {"kw_add", "spam_mod", "spam_add", "invite_mod", "invite_timeout",
               "invite_add"}
    THEN SubSeq(hits, 1, Len(hits) - 1)
    ELSE hits

\* C14: a failed send of an alert neither skips nor undoes a point increment.
\* A task one of whose rule alerts failed is never ended by that, and unless a
\* moderation action or the sink raised it has added the points of every rule
\* that triggered; and an add_suspicion call whose high-suspicion alert failed
\* has left its entry and its points in the ledger.
C14_FailedAlertKeepsPoints ==
    /\ \A t \in Tasks :
           tasks[t].alert_failed
               => /\ tasks[t].failed /= "alert"
                  /\ (tasks[t].pc /= "raised"
                         => tasks[t].added = AddedAt(tasks[t].pc, tasks[t].hits))
    /\ (last.points > 0 /\ last.sent = "failed")
           => /\ last.result /= "raised"
              /\ last.user \in DOMAIN suspicious_users
              /\ LET reasons == suspicious_users[last.user].reasons
                 IN  /\ reasons /= <<>>
                     /\ reasons[Len(reasons)].points = last.points
                     /\ suspicious_users[last.user].total_points = SumPoints(reasons)

\* the alert of a rule failed, the points of two rules were added, and the
\* high-suspicion alert of the last of them failed as well
C14_Witness ==
    /\ last.op = "add_invite" /\ last.points = 3 /\ last.sent = "failed"
    /\ \E t \in Tasks :
           /\ tasks[t].pc = "log"
           /\ tasks[t].user = last.user
           /\ tasks[t].alert_failed
           /\ tasks[t].added = tasks[t].hits
           /\ Len(tasks[t].added) >= 2

\* the reasons of the rules in the order process_message runs them
RuleOrder == <<"suspicious_content", "spam", "invite_link">>

\* the rules of a list are distinct and in the order of process_message
InRuleOrder(rules) ==
    \A i, j \in 1..Len(rules) :
        i < j => \E a, b \in 1..Len(RuleOrder) :
                     a < b /\ rules[i] = RuleOrder[a] /\ rules[j] = RuleOrder[b]

\* C15: the rules of a message run in the order keyword, spam window, invite
\* link, and every rule that triggers adds its points: once the processing of a
\* message has ended, the rules whose points were added are the rules that
\* triggered, in that order.
C15_EveryTriggeredRuleAdds ==
    \A t \in Tasks :
        /\ InRuleOrder(tasks[t].hits)
        /\ (tasks[t].pc \in {"done", "raised"} => tasks[t].added = tasks[t].hits)

\* C16: with auto_moderation off a detection issues no moderation action and
\* the processing goes on to add the points; with auto_moderation on a spam
\* detection issues a 5-minute timeout and an invite detection issues a delete
\* followed by a 10-minute timeout.  The setting is the one handle_spam and
\* handle_invite read, after the send of their alert.
C16_ModerationFollowsSetting ==
    LET auto == ConfigGet(config, "auto_moderation", TRUE)
    IN  /\ last.op = "spam_moderation"
               => last.actions = IF auto THEN <<"timeout_5">> ELSE <<>>
        /\ last.op = "invite_moderation"
               => /\ last.actions = IF auto THEN <<"delete">> ELSE <<>>
                  /\ \E t \in Tasks :
                         /\ tasks[t].user = last.user
                         /\ tasks[t].pc = IF auto THEN "invite_timeout" ELSE "invite_add"
        /\ last.op = "invite_timeout" => last.actions = <<"timeout_10">>
        /\ (last.op \in {"spam_moderation", "invite_moderation"} /\ ~auto)
               => last.result /= "raised"

\* C17: clear_suspicion on a user with a record removes the record, so that a
\* scan of the user finds none, and reports that it cleared it; on a user
\* without a record it changes no state and reports that there was none; a
\* second clear_suspicion leaves the state of the first.
C17_ClearIsIdempotent ==
    [][\A u \in Users :
          clear_suspicion(u)
              => /\ u \notin DOMAIN suspicious_users'
                 /\ scan_user(suspicious_users', u)
                        = [total_points |-> 0, status |-> "safe", reasons |-> <<>>]
                 /\ \A v \in DOMAIN suspicious_users \ {u} :
                        /\ v \in DOMAIN suspicious_users'
                        /\ suspicious_users'[v] = suspicious_users[v]
                 /\ last'.result = IF u \in DOMAIN suspicious_users
                                   THEN "cleared" ELSE "no_suspicion"
                 /\ (u \notin DOMAIN suspicious_users
                        => suspicious_users' = suspicious_users)
                 /\ ClearRecord(suspicious_users', u) = suspicious_users']_vars

\* the record of user 1 was cleared, and clear_suspicion was applied again
C17_Witness ==
    /\ last.op = "clear_suspicion"
    /\ last.user = 1
    /\ last.result = "no_suspicion"
    /\ counts.cmds = 2
    /\ 1 \notin DOMAIN suspicious_users

\* C18: the logs command shows the selected events most recent first: for any
\* event list, type and limit, the first event shown is the last recorded event
\* of the type asked for.
C18_MostRecentFirst ==
    [][\A event_type \in EventTypeArgs, limit \in Limits :
          (show_logs(event_type, limit) /\ last'.shown /= <<>>)
              => last'.shown[1] =
                     FilterEvents(security_events, event_type)
                         [Len(FilterEvents(security_events, event_type))]]_vars

\* C19: the timeout command issues the timeout and, when it took effect, adds
\* 3 points with the reason manual_timeout to the member's record; when it
\* failed the command reports the error and adds nothing; no exception leaves
\* the command, and the member's total is the sum of the member's entries.
C19_TimeoutCommand ==
    last.op = "timeout"
        => /\ last.actions = <<"timeout">>
           /\ last.result /= "raised"
           /\ last.applied = <<"timeout">>
                  => /\ last.points = 3
                     /\ last.user \in DOMAIN suspicious_users
                     /\ LET reasons == suspicious_users[last.user].reasons
                        IN  /\ reasons /= <<>>
                            /\ reasons[Len(reasons)].reason = "manual_timeout"
                            /\ reasons[Len(reasons)].points = 3
           /\ last.applied = <<>> => (last.result = "error" /\ last.points = 0)
           /\ last.user \in DOMAIN suspicious_users
                  => suspicious_users[last.user].total_points
                         = SumPoints(suspicious_users[last.user].reasons)

\* C20: no step lowers a user's total_points or removes a user's record, but
\* clear_suspicion for that user; reload_config changes nothing of the ledger
\* and nothing of the event list.
C20_NoDecay ==
    [][/\ \A u \in DOMAIN suspicious_users :
              \/ /\ u \in DOMAIN suspicious_users'
                 /\ suspicious_users'[u].total_points >= suspicious_users[u].total_points
                 /\ Len(suspicious_users'[u].reasons) >= Len(suspicious_users[u].reasons)
              \/ /\ last'.op = "clear_suspicion"
                 /\ last'.user = u
       /\ last'.op = "reload"
              => /\ suspicious_users' = suspicious_users
                 /\ security_events' = security_events]_vars

\* the configuration was reloaded, with a threshold other than the one before,
\* while user 1 had points over the threshold and the event list was not empty
C20_Witness ==
    /\ last.op = "reload"
    /\ 1 \in DOMAIN suspicious_users
    /\ suspicious_users[1].total_points >= DefaultThreshold
    /\ suspicious_users[1].total_points < Threshold
    /\ security_events /= <<>>

\* the points process_message passes to add_suspicion for a rule (bot.py:146,
\* 150, 154)
RulePoints(rule) ==
    CASE rule = "suspicious_content" -> 1
      [] rule = "spam" -> 2
      [] rule = "invite_link" -> 3

RECURSIVE SumRulePoints(_)
SumRulePoints(rules) ==
    IF rules = <<>> THEN 0 ELSE RulePoints(rules[1]) + SumRulePoints(Tail(rules))

\* the total and the number of history entries of a user, 0 without a record
TotalOf(su, user_id) ==
    IF user_id \in DOMAIN su THEN su[user_id].total_points ELSE 0

EntriesOf(su, user_id) ==
    IF user_id \in DOMAIN su THEN Len(su[user_id].reasons) ELSE 0

\* the rules whose points the handler in slot t has added for a user
AddedBy(t, user_id) ==
    IF tasks[t].user = user_id THEN tasks[t].added ELSE <<>>

\* every message so far has its handler in a slot of its own and no command
\* was invoked: the ledger was changed by these handlers alone
OnlyTheseHandlers ==
    /\ counts.cmds = 0
    /\ counts.msgs = Cardinality({t \in Tasks : tasks[t].pc /= "idle"})

\* each add_suspicion call adds its points to the total it finds and one entry
\* to the history it finds, and no other step but clear_suspicion changes them
EveryCallCounts ==
    \A u \in Users :
        \/ /\ last'.points > 0
           /\ last'.user = u
           /\ TotalOf(suspicious_users', u) = TotalOf(suspicious_users, u) + last'.points
           /\ EntriesOf(suspicious_users', u) = EntriesOf(suspicious_users, u) + 1
        \/ /\ ~(last'.points > 0 /\ last'.user = u)
           /\ TotalOf(suspicious_users', u) = TotalOf(suspicious_users, u)
           /\ EntriesOf(suspicious_users', u) = EntriesOf(suspicious_users, u)
        \/ /\ last'.op = "clear_suspicion"
           /\ last'.user = u

\* C21: no update is lost when handlers that call add_suspicion for the same
\* user interleave at their awaits.  While the message handlers alone have
\* run, a user's total is the total before them plus the points of every call
\* they made, and the history has one entry more for each call; and every call
\* of any handler (message, warn, timeout) adds its points and its entry to
\* what the ledger holds when it is made.
C21_NoLostUpdate ==
    /\ [](OnlyTheseHandlers
            => \A u \in Users :
                   /\ TotalOf(suspicious_users, u)
                          = TotalOf(AfterBurst, u)
                            + SumRulePoints(AddedBy(1, u)) + SumRulePoints(AddedBy(2, u))
                   /\ EntriesOf(suspicious_users, u)
                          = EntriesOf(AfterBurst, u)
                            + Len(AddedBy(1, u)) + Len(AddedBy(2, u)))
    /\ [][EveryCallCounts]_vars

\* two handlers of one user have interleaved their add_suspicion calls and
\* both have finished: the first two entries they added are the keyword
\* entries of the two, and the points of all their calls are in the total
C21_Witness ==
    /\ OnlyTheseHandlers
    /\ tasks[1].pc = "done" /\ tasks[2].pc = "done"
    /\ tasks[1].user = tasks[2].user
    /\ Len(tasks[1].added) >= 2 /\ Len(tasks[2].added) >= 2
    /\ LET u == tasks[1].user
           n == EntriesOf(AfterBurst, u)
       IN  /\ u \in DOMAIN suspicious_users
           /\ suspicious_users[u].reasons[n + 1].reason = "suspicious_content"
           /\ suspicious_users[u].reasons[n + 2].reason = "suspicious_content"
           /\ suspicious_users[u].total_points
                  = TotalOf(AfterBurst, u)
                    + SumRulePoints(tasks[1].added) + SumRulePoints(tasks[2].added)

\* C22: a step made for one user (a step of the processing of the user's
\* message, the spam check, add_suspicion, warn, timeout, clear_suspicion)
\* leaves every other user as it was: with the same record, window included,
\* or without a record as before.
C22_NoCrossUserInterference ==
    [][\A u \in Users :
          u /= last'.user
              => /\ (u \in DOMAIN suspicious_users') = (u \in DOMAIN suspicious_users)
                 /\ (u \in DOMAIN suspicious_users
                        => suspicious_users'[u] = suspicious_users[u])]_vars

\* the handlers of a message of user 1 and of a message of user 2 are in
\* flight, both have added points, and the last step added points for user 2
\* while user 1 has a record with a full window
C22_Witness ==
    /\ tasks[1].user = 1 /\ tasks[2].user = 2
    /\ ~Free(1) /\ ~Free(2)
    /\ tasks[1].added /= <<>> /\ tasks[2].added /= <<>>
    /\ last.user = 2 /\ last.points > 0
    /\ 1 \in DOMAIN suspicious_users /\ 2 \in DOMAIN suspicious_users
    /\ Len(suspicious_users[1].recent_messages) = SpamCount
    /\ suspicious_users[1].total_points > suspicious_users[2].total_points

\* C23: in every reachable state the stored window of every user holds at most
\* 5 timestamps, however many messages the user sent and whenever.
C23_WindowAtMostFive ==
    \A u \in DOMAIN suspicious_users :
        Len(suspicious_users[u].recent_messages) <= SpamCount

\* a check has reported a burst on a window of 5 timestamps, and the window
\* still holds 5
C23_Witness ==
    /\ last.op = "spam" /\ last.alert = "spam"
    /\ last.user \in DOMAIN suspicious_users
    /\ Len(suspicious_users[last.user].recent_messages) = SpamCount
    /\ Len(spam_checks[last.user]) > SpamCount

====
